---- MODULE Spec2Model ----
(***************************************************************************)
(* Model of the riak Node (src/node.go): the lifecycle state, the pool of  *)
(* idle connections, the live-connection counter and the two locks, with   *)
(* concurrent callers of Start, Stop and Execute.                           *)
(***************************************************************************)
EXTENDS Integers, Sequences, FiniteSets, TLC

(* ------------------------------ bounds -------------------------------- *)
\* options.MinConnections ranges over 1..MaxMinConnections.
MaxMinConnections == 2
\* number of concurrent callers of Execute
NumExecutors == 2

(* --------------------------- program constants ------------------------ *)
\* type state byte; const ( ERROR state = iota ... )        node.go:36-45
ERROR == 0
CREATED == 1
RUNNING == 2
HEALTH_CHECKING == 3
SHUTTING_DOWN == 4
SHUTDOWN == 5

\* currentNumConnections is a uint16: arithmetic is modulo 2^16  node.go:32
Uint16Mod == 65536

(* ------------------------------ values -------------------------------- *)
\* a nil *connection
Nil == 0

\* the goroutines that can call Start, Stop and Execute; each may call
\* again once its call returned. Which of them exist in a run is `callers`.
StartProcs == {<<"Start", 1>>, <<"Start", 2>>}
StopProcs == {<<"Stop", 1>>}
ExecProcs == {<<"Execute", k>> : k \in 1..NumExecutors}
Procs == StartProcs \cup StopProcs \cup ExecProcs

\* the value of a mutex nobody holds
Unlocked == <<"nobody", 0>>

\* connection identities: every dial of every warm fill can create one
MaxConnId == Cardinality(StartProcs) * MaxMinConnections
ConnIds == 1..MaxConnId

\* error values: nil, the guard's error, and the collaborators' errors
NoErr == [kind |-> "nil", conn |-> 0]
IllegalState == [kind |-> "IllegalState", conn |-> 0]
ExecError == [kind |-> "ExecError", conn |-> 0]
CloseError(c) == [kind |-> "CloseError", conn |-> c]

\* what a caller has got back: nothing yet, or (executed, err)
NoRet == [done |-> FALSE, executed |-> FALSE, err |-> NoErr]
Returned(ex, e) == [done |-> TRUE, executed |-> ex, err |-> e]

VARIABLES
    callers,                \* the goroutines of this run
    minConnections,         \* Node.minConnections
    maxConnections,         \* Node.maxConnections
    state,                  \* Node.state
    available,              \* Node.available ([]*connection; Nil is a nil entry)
    currentNumConnections,  \* Node.currentNumConnections (uint16)
    connMtx,                \* holder of Node.connMtx, or Unlocked
    stateReaders,           \* callers holding Node.stateMtx for reading
    connStatus,             \* per connection: "none", "open", "closed", "closeFailed"
    pc,                     \* each caller's position
    conn,                   \* Execute's local conn
    err,                    \* each call's named result err
    executed,               \* Execute's named result executed
    idx,                    \* loop index of Start's fill / shutdown's range
    ret,                    \* what each caller's last call returned
    shutdownErr,            \* shutdown's named result err
    drainLog,               \* history: the entries a Stop's drain closed, with each close's result
    panicked                \* the process died in a panic

vars == <<callers, minConnections, maxConnections, state, available, currentNumConnections, connMtx,
          stateReaders, connStatus, pc, conn, err, executed, idx, ret,
          shutdownErr, drainLog, panicked>>

nodeVars == <<callers, minConnections, maxConnections, state, available, currentNumConnections>>

(* --------------------------- pure helpers ----------------------------- *)
Range(s) == {s[k] : k \in 1..Len(s)}

\* make([]*connection, n): a slice of LENGTH n, every entry nil
MakeSlice(n) == [k \in 1..n |-> Nil]

\* uint16 decrement and increment
Dec16(n) == (n - 1) % Uint16Mod
Inc16(n) == (n + 1) % Uint16Mod

\* stateCheck(allowed...): nil when n.state is one of allowed
stateCheck(allowed) == IF state \in allowed THEN NoErr ELSE IllegalState

\* the connection ids not yet handed out by newConnection
FreshConn == CHOOSE c \in ConnIds : connStatus[c] = "none" /\
                 \A d \in ConnIds : connStatus[d] = "none" => c <= d

\* NewNode, lines 79-81 and 96-106: the Node as constructed, called by the
\* goroutines cs, with MaxConnections drawn from maxs. A zero MinConnections
\* is replaced by the default, so minConnections >= 1; maxConnections is
\* stored and never read again; available is
\* make([]*connection, MinConnections): MinConnections nil entries;
\* currentNumConnections is the zero value.
InitWith(cs, maxs) ==
    /\ callers = cs
    /\ minConnections \in 1..MaxMinConnections
    /\ maxConnections \in maxs
    /\ state = CREATED
    /\ available = MakeSlice(minConnections)
    /\ currentNumConnections = 0
    /\ connMtx = Unlocked
    /\ stateReaders = {}
    /\ connStatus = [c \in ConnIds |-> "none"]
    /\ pc = [p \in Procs |-> "idle"]
    /\ conn = [p \in ExecProcs |-> Nil]
    /\ err = [p \in Procs |-> NoErr]
    /\ executed = [p \in ExecProcs |-> FALSE]
    /\ idx = [p \in StartProcs \cup StopProcs |-> 0]
    /\ ret = [p \in Procs |-> NoRet]
    /\ shutdownErr = [p \in StopProcs |-> NoErr]
    /\ drainLog = [p \in StopProcs |-> <<>>]
    /\ panicked = FALSE

\* one goroutine calling Start, one calling Stop, NumExecutors calling
\* Execute, on a Node whose maximum is not below its minimum
Init == InitWith({<<"Start", 1>>} \cup StopProcs \cup ExecProcs,
                 {MaxMinConnections})

\* two goroutines racing to Start, one calling Stop, one calling Execute,
\* on every configuration NewNode accepts
InitRace == InitWith(StartProcs \cup StopProcs \cup {<<"Execute", 1>>},
                     1..MaxMinConnections)

(* ------------------------------ Execute ------------------------------- *)
\* a guard that lets a Node that was never started through
ExecuteAllowed_WithCreated == {CREATED, RUNNING, HEALTH_CHECKING}

\* Execute, line 121: the allow-list of Execute's guard
ExecuteAllowed == {RUNNING, HEALTH_CHECKING}

\* Execute, lines 119-123: executed = false; the guard; return on its error
ExecuteGuard(p) ==
    /\ pc[p] = "idle"
    /\ p \in callers
    /\ ~panicked
    /\ LET e == stateCheck(ExecuteAllowed) IN
         IF e # NoErr
           THEN /\ ret' = [ret EXCEPT ![p] = Returned(FALSE, e)]
                /\ pc' = pc
           ELSE /\ ret' = [ret EXCEPT ![p] = NoRet]
                /\ pc' = [pc EXCEPT ![p] = "e_rlock"]
    /\ UNCHANGED <<nodeVars, connMtx, stateReaders, connStatus, conn, err,
                   executed, idx, shutdownErr, drainLog, panicked>>

\* Execute, lines 125-127: take the state read lock, re-check n.state == RUNNING
ExecuteRLock(p) ==
    /\ pc[p] = "e_rlock"
    /\ p \in callers
    /\ ~panicked
    /\ stateReaders' = stateReaders \cup {p}
    /\ pc' = [pc EXCEPT ![p] = IF state = RUNNING THEN "e_get" ELSE "e_ret"]
    /\ UNCHANGED <<nodeVars, connMtx, connStatus, conn, err, executed, idx,
                   ret, shutdownErr, drainLog, panicked>>

\* a checkout that hands out the last entry while the first one is removed
PoppedConn_Last(avail) == IF Len(avail) > 0 THEN avail[Len(avail)] ELSE Nil

\* getAvailableConnection, lines 177-183: the connection handed out
PoppedConn(avail) == IF Len(avail) > 0 THEN Head(avail) ELSE Nil

\* getAvailableConnection, line 180: what stays in n.available
AfterPop(avail) == IF Len(avail) > 0 THEN Tail(avail) ELSE avail

\* Execute, line 128: conn := n.getAvailableConnection(), under connMtx
ExecuteGet(p) ==
    /\ pc[p] = "e_get"
    /\ p \in callers
    /\ ~panicked
    /\ connMtx = Unlocked
    /\ conn' = [conn EXCEPT ![p] = PoppedConn(available)]
    /\ available' = AfterPop(available)
    /\ pc' = [pc EXCEPT ![p] =
                 IF PoppedConn(available) = Nil THEN "e_ret" ELSE "e_exec"]
    /\ UNCHANGED <<callers, minConnections, maxConnections, state, currentNumConnections, connMtx,
                   stateReaders, connStatus, err, executed, idx, ret,
                   shutdownErr, drainLog, panicked>>

\* executed set whatever conn.execute returned
ExecutedFlag_Always(e) == TRUE

\* Execute, lines 131-133: executed is set only when conn.execute returned nil
ExecutedFlag(e) == e = NoErr

\* Execute, lines 130-133: run the command on the connection
ExecuteRun(p) ==
    /\ pc[p] = "e_exec"
    /\ p \in callers
    /\ ~panicked
    /\ \E e \in {NoErr, ExecError} :
         /\ err' = [err EXCEPT ![p] = e]
         /\ executed' = [executed EXCEPT ![p] = ExecutedFlag(e)]
    /\ pc' = [pc EXCEPT ![p] = "e_ret"]
    /\ UNCHANGED <<nodeVars, connMtx, stateReaders, connStatus, conn, idx,
                   ret, shutdownErr, drainLog, panicked>>

\* Execute, lines 126 and 137: the deferred RUnlock and the return
ExecuteReturn(p) ==
    /\ pc[p] = "e_ret"
    /\ p \in callers
    /\ ~panicked
    /\ stateReaders' = stateReaders \ {p}
    /\ ret' = [ret EXCEPT ![p] = Returned(executed[p], err[p])]
    /\ pc' = [pc EXCEPT ![p] = "idle"]
    /\ conn' = [conn EXCEPT ![p] = Nil]
    /\ err' = [err EXCEPT ![p] = NoErr]
    /\ executed' = [executed EXCEPT ![p] = FALSE]
    /\ UNCHANGED <<nodeVars, connMtx, connStatus, idx, shutdownErr,
                   drainLog, panicked>>

(* ------------------------------- Start -------------------------------- *)
\* Start, line 141: the allow-list of Start's guard
StartAllowed == {CREATED}

\* Start, lines 141-143
StartGuard(p) ==
    /\ pc[p] = "idle"
    /\ p \in callers
    /\ ~panicked
    /\ LET e == stateCheck(StartAllowed) IN
         IF e # NoErr
           THEN /\ ret' = [ret EXCEPT ![p] = Returned(FALSE, e)]
                /\ pc' = pc
           ELSE /\ ret' = [ret EXCEPT ![p] = NoRet]
                /\ pc' = [pc EXCEPT ![p] = "s_lock"]
    /\ UNCHANGED <<nodeVars, connMtx, stateReaders, connStatus, conn, err,
                   executed, idx, shutdownErr, drainLog, panicked>>

\* Start, lines 145-146: n.connMtx.Lock(); i = 0
StartLock(p) ==
    /\ pc[p] = "s_lock"
    /\ p \in callers
    /\ ~panicked
    /\ connMtx = Unlocked
    /\ connMtx' = p
    /\ idx' = [idx EXCEPT ![p] = 0]
    /\ pc' = [pc EXCEPT ![p] = "s_fill"]
    /\ UNCHANGED <<nodeVars, stateReaders, connStatus, conn, err, executed,
                   ret, shutdownErr, drainLog, panicked>>

\* returnConnectionToPool, line 191: pool the connection or close it
PoolsConnection(st) == st < SHUTTING_DOWN

\* Start, lines 147-151: one iteration of the warm fill. createNewConnection
\* (lines 265-269) counts the connection when connect succeeds;
\* returnConnectionToPool (lines 191-200) reads n.state without the state lock.
StartFill(p) ==
    /\ pc[p] = "s_fill"
    /\ p \in callers
    /\ ~panicked
    /\ idx[p] < minConnections
    /\ idx' = [idx EXCEPT ![p] = idx[p] + 1]
    /\ \/ \* connect failed: nothing is counted, nothing is pooled
          UNCHANGED <<available, currentNumConnections, connStatus>>
       \/ \* connect succeeded
          LET c == FreshConn IN
            IF PoolsConnection(state)
              THEN /\ available' = Append(available, c)
                   /\ currentNumConnections' = Inc16(currentNumConnections)
                   /\ connStatus' = [connStatus EXCEPT ![c] = "open"]
              ELSE /\ available' = available
                   /\ currentNumConnections' =
                          Dec16(Inc16(currentNumConnections))
                   /\ \E st \in {"closed", "closeFailed"} :
                          connStatus' = [connStatus EXCEPT ![c] = st]
    /\ UNCHANGED <<callers, minConnections, maxConnections, state, connMtx, stateReaders, pc, conn,
                   err, executed, ret, shutdownErr, drainLog, panicked>>

\* Start, line 152: the loop is over, n.connMtx.Unlock()
StartUnlock(p) ==
    /\ pc[p] = "s_fill"
    /\ p \in callers
    /\ ~panicked
    /\ idx[p] >= minConnections
    /\ connMtx' = Unlocked
    /\ pc' = [pc EXCEPT ![p] = "s_set"]
    /\ UNCHANGED <<nodeVars, stateReaders, connStatus, conn, err, executed,
                   idx, ret, shutdownErr, drainLog, panicked>>

\* a setState that does not wait for the readers of the state lock
CanSetState_Always == TRUE

\* setState, lines 228-233: needs the state lock for writing
CanSetState == stateReaders = {}

\* Start, line 157: the named result err, nil once the guard has passed
StartResult(p) == err[p]

\* Start, lines 155-157: n.setState(RUNNING); return
StartSetState(p) ==
    /\ pc[p] = "s_set"
    /\ p \in callers
    /\ ~panicked
    /\ CanSetState
    /\ state' = RUNNING
    /\ ret' = [ret EXCEPT ![p] = Returned(FALSE, StartResult(p))]
    /\ pc' = [pc EXCEPT ![p] = "idle"]
    /\ UNCHANGED <<callers, minConnections, maxConnections, available, currentNumConnections, connMtx,
                   stateReaders, connStatus, conn, err, executed, idx,
                   shutdownErr, drainLog, panicked>>

(* -------------------------------- Stop -------------------------------- *)
\* Stop, line 161: the allow-list of Stop's guard
StopAllowed == {CREATED, HEALTH_CHECKING}

\* Stop, lines 161-163
StopGuard(p) ==
    /\ pc[p] = "idle"
    /\ p \in callers
    /\ ~panicked
    /\ LET e == stateCheck(StopAllowed) IN
         IF e # NoErr
           THEN /\ ret' = [ret EXCEPT ![p] = Returned(FALSE, e)]
                /\ pc' = pc
                /\ UNCHANGED <<shutdownErr, drainLog>>
           ELSE /\ ret' = [ret EXCEPT ![p] = NoRet]
                /\ pc' = [pc EXCEPT ![p] = "t_set"]
                /\ shutdownErr' = [shutdownErr EXCEPT ![p] = NoErr]
                /\ drainLog' = [drainLog EXCEPT ![p] = <<>>]
    /\ UNCHANGED <<nodeVars, connMtx, stateReaders, connStatus, conn, err,
                   executed, idx, panicked>>

\* Stop, line 165: n.setState(SHUTTING_DOWN)
StopSetState(p) ==
    /\ pc[p] = "t_set"
    /\ p \in callers
    /\ ~panicked
    /\ CanSetState
    /\ state' = SHUTTING_DOWN
    /\ pc' = [pc EXCEPT ![p] = "t_lock"]
    /\ UNCHANGED <<callers, minConnections, maxConnections, available, currentNumConnections, connMtx,
                   stateReaders, connStatus, conn, err, executed, idx, ret,
                   shutdownErr, drainLog, panicked>>

\* shutdown, lines 204-207: n.connMtx.Lock(); the range starts at entry 0
ShutdownLock(p) ==
    /\ pc[p] = "t_lock"
    /\ p \in callers
    /\ ~panicked
    /\ connMtx = Unlocked
    /\ connMtx' = p
    /\ idx' = [idx EXCEPT ![p] = 0]
    /\ pc' = [pc EXCEPT ![p] = "t_drain"]
    /\ UNCHANGED <<nodeVars, stateReaders, connStatus, conn, err, executed,
                   ret, shutdownErr, drainLog, panicked>>

\* conn.close() on a nil *connection (line 210 reached with a nil entry):
\* close is not part of node.go; with a nil receiver it faults or returns
NilCloseOutcomes == {"panic", "ok", "err"}

\* the results conn.close() can have for entry c of n.available
CloseOutcomes(c) == IF c = Nil THEN NilCloseOutcomes ELSE {"ok", "err"}

\* shutdown, lines 207-211: one iteration of the range over n.available:
\* the entry is set to nil (the slice keeps its length), the counter is
\* decremented, err is overwritten with this close's result
ShutdownDrain(p) ==
    /\ pc[p] = "t_drain"
    /\ p \in callers
    /\ ~panicked
    /\ idx[p] < Len(available)
    /\ LET k == idx[p] + 1
           c == available[k] IN
         /\ available' = [available EXCEPT ![k] = Nil]
         /\ currentNumConnections' = Dec16(currentNumConnections)
         /\ idx' = [idx EXCEPT ![p] = k]
         /\ \E out \in CloseOutcomes(c) :
              LET e == IF out = "err" THEN CloseError(c) ELSE NoErr IN
              /\ IF out = "panic"
                   THEN /\ panicked' = TRUE
                        /\ connMtx' = Unlocked
                        /\ pc' = [pc EXCEPT ![p] = "panicked"]
                   ELSE UNCHANGED <<panicked, connMtx, pc>>
              /\ shutdownErr' = [shutdownErr EXCEPT ![p] = e]
              /\ drainLog' = [drainLog EXCEPT ![p] =
                     Append(drainLog[p], [conn |-> c, err |-> e])]
              /\ connStatus' = IF c = Nil THEN connStatus
                               ELSE [connStatus EXCEPT ![c] =
                                       IF e = NoErr THEN "closed"
                                                    ELSE "closeFailed"]
    /\ UNCHANGED <<callers, minConnections, maxConnections, state, stateReaders, conn, err, executed,
                   ret>>

\* Stop, lines 167-168: shutdown()'s result is dropped; Stop returns its own err
StopResult(p) == err[p]

\* shutdown, lines 212-215: the last close failed: setState(ERROR); return
ShutdownError(p) ==
    /\ pc[p] = "t_drain"
    /\ p \in callers
    /\ ~panicked
    /\ idx[p] >= Len(available)
    /\ shutdownErr[p] # NoErr
    /\ CanSetState
    /\ state' = ERROR
    /\ connMtx' = Unlocked
    /\ ret' = [ret EXCEPT ![p] = Returned(FALSE, StopResult(p))]
    /\ pc' = [pc EXCEPT ![p] = "idle"]
    /\ UNCHANGED <<callers, minConnections, maxConnections, available, currentNumConnections,
                   stateReaders, connStatus, conn, err, executed, idx,
                   shutdownErr, drainLog, panicked>>

\* shutdown, lines 217-219 and 225: the counter is zero: setState(SHUTDOWN)
ShutdownDone(p) ==
    /\ pc[p] = "t_drain"
    /\ p \in callers
    /\ ~panicked
    /\ idx[p] >= Len(available)
    /\ shutdownErr[p] = NoErr
    /\ currentNumConnections = 0
    /\ CanSetState
    /\ state' = SHUTDOWN
    /\ connMtx' = Unlocked
    /\ ret' = [ret EXCEPT ![p] = Returned(FALSE, StopResult(p))]
    /\ pc' = [pc EXCEPT ![p] = "idle"]
    /\ UNCHANGED <<callers, minConnections, maxConnections, available, currentNumConnections,
                   stateReaders, connStatus, conn, err, executed, idx,
                   shutdownErr, drainLog, panicked>>

\* shutdown, lines 220-223: the counter is not zero: panic
ShutdownPanic(p) ==
    /\ pc[p] = "t_drain"
    /\ p \in callers
    /\ ~panicked
    /\ idx[p] >= Len(available)
    /\ shutdownErr[p] = NoErr
    /\ currentNumConnections # 0
    /\ panicked' = TRUE
    /\ connMtx' = Unlocked
    /\ pc' = [pc EXCEPT ![p] = "panicked"]
    /\ UNCHANGED <<nodeVars, stateReaders, connStatus, conn, err, executed,
                   idx, ret, shutdownErr, drainLog>>

(* --------------------------- specification ---------------------------- *)
\* a panic ends the process: no caller takes another step
Next ==
    \/ \E p \in ExecProcs : ExecuteGuard(p)
    \/ \E p \in ExecProcs : ExecuteRLock(p)
    \/ \E p \in ExecProcs : ExecuteGet(p)
    \/ \E p \in ExecProcs : ExecuteRun(p)
    \/ \E p \in ExecProcs : ExecuteReturn(p)
    \/ \E p \in StartProcs : StartGuard(p)
    \/ \E p \in StartProcs : StartLock(p)
    \/ \E p \in StartProcs : StartFill(p)
    \/ \E p \in StartProcs : StartUnlock(p)
    \/ \E p \in StartProcs : StartSetState(p)
    \/ \E p \in StopProcs : StopGuard(p)
    \/ \E p \in StopProcs : StopSetState(p)
    \/ \E p \in StopProcs : ShutdownLock(p)
    \/ \E p \in StopProcs : ShutdownDrain(p)
    \/ \E p \in StopProcs : ShutdownError(p)
    \/ \E p \in StopProcs : ShutdownDone(p)
    \/ \E p \in StopProcs : ShutdownPanic(p)

Spec == Init /\ [][Next]_vars

SpecRace == InitRace /\ [][Next]_vars

TypeOK ==
    /\ callers \subseteq Procs
    /\ minConnections \in 1..MaxMinConnections
    /\ maxConnections \in 1..MaxMinConnections
    /\ state \in {ERROR, CREATED, RUNNING, HEALTH_CHECKING, SHUTTING_DOWN, SHUTDOWN}
    /\ available \in Seq(ConnIds \cup {Nil})
    /\ currentNumConnections \in 0..(Uint16Mod - 1)
    /\ connMtx \in Procs \cup {Unlocked}
    /\ stateReaders \subseteq ExecProcs
    /\ panicked \in BOOLEAN

(* ------------------------- properties: helpers ------------------------ *)
\* the connections sitting in the idle sequence (its non-nil entries)
IdleConns == Range(available) \ {Nil}

\* connections that are open and not in the idle sequence: checked out
CheckedOut == {c \in ConnIds : connStatus[c] = "open" /\ c \notin IdleConns}

\* the closes of p's drain that failed, and the error of the first of them
FailedCloses(p) == {k \in 1..Len(drainLog[p]) : drainLog[p][k].err # NoErr}
FirstCloseErr(p) ==
    IF FailedCloses(p) = {} THEN NoErr
    ELSE drainLog[p][CHOOSE k \in FailedCloses(p) :
                        \A j \in FailedCloses(p) : k <= j].err

\* p's drain ranged over connections only, no nil entry
DrainedOnlyConns(p) == \A k \in 1..Len(drainLog[p]) : drainLog[p][k].conn # Nil

\* no Stop call is between its guard and its return
NoStopInProgress == \A q \in StopProcs : pc[q] = "idle"

(* --------------------------------- C1 --------------------------------- *)
\* C1: an Execute call that checked a connection out of the idle sequence
\* has checked that same connection back in when it reaches its return, on
\* success and on failure alike (Node RUNNING, no Stop in progress).
C1_CheckedBackInAtReturn ==
    \A p \in ExecProcs :
        (pc[p] = "e_ret" /\ conn[p] # Nil /\ state = RUNNING /\ NoStopInProgress)
            => conn[p] \in IdleConns

(* --------------------------------- C2 --------------------------------- *)
\* C2: the step that completes a Stop call which passed its guard, in whose
\* drain no close failed and with no connection checked out, ends with
\* state SHUTDOWN, currentNumConnections 0 and an empty idle sequence.
C2_StopReachesShutdown ==
    [][\A p \in StopProcs :
          (/\ pc[p] = "t_drain"
           /\ pc'[p] \in {"idle", "panicked"}
           /\ FirstCloseErr(p)' = NoErr
           /\ CheckedOut' = {})
          => (state' = SHUTDOWN /\ currentNumConnections' = 0
              /\ available' = <<>>)]_vars

(* --------------------------------- C3 --------------------------------- *)
\* C3: Stop called on a Node in state RUNNING is not refused with an
\* illegal-state error: it goes on to set SHUTTING_DOWN and drain.
C3_StopWorksWhenRunning ==
    [][\A p \in StopProcs :
          (pc[p] = "idle" /\ state = RUNNING /\ ret'[p] # ret[p])
          => (ret'[p].err # IllegalState /\ pc'[p] = "t_set")]_vars

(* --------------------------------- C4 --------------------------------- *)
\* C4: when the close of an idle connection failed during the drain
\* (taken here over drains that met connections only), the Stop call ends
\* with state ERROR and returns the error of the first close that failed.
C4_DrainFailureSurfaces ==
    [][\A p \in StopProcs :
          (/\ pc[p] = "t_drain"
           /\ pc'[p] \in {"idle", "panicked"}
           /\ DrainedOnlyConns(p)'
           /\ FirstCloseErr(p)' # NoErr)
          => (/\ state' = ERROR
              /\ ret'[p].done
              /\ ret'[p].err = FirstCloseErr(p)')]_vars

(* --------------------------------- C5 --------------------------------- *)
\* C5: when a Start call made in CREATED returns, state is RUNNING, the
\* idle sequence holds between 0 and minConnections entries, and Start
\* returns no error, whatever the dials did.
C5_StartPostcondition ==
    [][\A p \in StartProcs :
          (pc[p] = "s_set" /\ pc'[p] = "idle")
          => (/\ state' = RUNNING
              /\ Len(available') <= minConnections
              /\ ret'[p].err = NoErr)]_vars

(* --------------------------------- C6 --------------------------------- *)
\* every dial of the warm fill succeeded: minConnections connections exist
AllDialsSucceeded ==
    Cardinality({c \in ConnIds : connStatus[c] # "none"}) = minConnections

\* C6: when every dial succeeded, the return of the single Start on a fresh
\* Node (no Stop under way) leaves exactly minConnections idle entries, each
\* a distinct open connection, and currentNumConnections = minConnections.
C6_WarmFillExact ==
    [][\A p \in StartProcs :
          (/\ pc[p] = "s_set" /\ pc'[p] = "idle"
           /\ state = CREATED /\ NoStopInProgress
           /\ AllDialsSucceeded)
          => (/\ Len(available') = minConnections
              /\ \A k \in 1..Len(available') :
                    /\ available'[k] # Nil
                    /\ connStatus'[available'[k]] = "open"
                    /\ \A j \in 1..Len(available') :
                          available'[j] = available'[k] => j = k
              /\ currentNumConnections' = minConnections)]_vars

(* --------------------------------- C7 --------------------------------- *)
\* C7: Execute never returns executed = true together with a non-nil error,
\* and never has executed = true at its return when its checkout obtained
\* no connection.
C7_ExecutedMeansSuccess ==
    \A p \in ExecProcs :
        /\ (ret[p].done /\ ret[p].executed) => ret[p].err = NoErr
        /\ (pc[p] = "e_ret" /\ executed[p]) => (err[p] = NoErr /\ conn[p] # Nil)

\* an Execute call has returned executed = true
C7_Witness == \E p \in ExecProcs : ret[p].done /\ ret[p].executed

(* --------------------------------- C8 --------------------------------- *)
\* C8: an Execute call made while the state is neither RUNNING nor
\* HEALTH_CHECKING returns (false, illegal-state error) at once, holds no
\* connection and no lock, and leaves the state, the idle sequence and
\* currentNumConnections as they were.
C8_ExecuteRefusedOutsideRunning ==
    [][\A p \in ExecProcs :
          (/\ pc[p] = "idle"
           /\ state \notin {RUNNING, HEALTH_CHECKING}
           /\ (pc'[p] # pc[p] \/ ret'[p] # ret[p]))
          => (/\ ret'[p] = Returned(FALSE, IllegalState)
              /\ pc'[p] = "idle"
              /\ conn'[p] = Nil
              /\ p \notin stateReaders'
              /\ UNCHANGED <<state, available, currentNumConnections>>)]_vars

\* an Execute call was refused on a Node still in CREATED
C8_Witness ==
    \E p \in ExecProcs :
        state = CREATED /\ pc[p] = "idle" /\ ret[p] = Returned(FALSE, IllegalState)

(* --------------------------------- C9 --------------------------------- *)
\* the benign non-execution cases, at the step that decides the result:
\* the re-check under the read lock finds a state other than RUNNING, or
\* the Node is RUNNING and no idle connection is available
BenignNonExecution(p) ==
    \/ pc[p] = "e_rlock" /\ state # RUNNING
    \/ pc[p] = "e_get" /\ state = RUNNING /\ IdleConns = {}

\* C9: past the guard, the result of Execute is (false, nil) exactly in the
\* benign cases, and it carries an error only when the command failed.
C9_FalseNilOnlyWhenBenign ==
    [][\A p \in ExecProcs :
          (pc[p] # "e_ret" /\ pc'[p] = "e_ret")
          => (/\ (~executed'[p] /\ err'[p] = NoErr) <=> BenignNonExecution(p)
              /\ err'[p] # NoErr => pc[p] = "e_exec")]_vars

(* --------------------------------- C10 -------------------------------- *)
\* C10: in every reachable state, state = SHUTDOWN implies that
\* currentNumConnections is 0 and the idle sequence is empty.
C10_ShutdownMeansEmpty ==
    state = SHUTDOWN => (currentNumConnections = 0 /\ Len(available) = 0)

(* --------------------------------- C11 -------------------------------- *)
\* C11: the state only moves forward along CREATED, RUNNING,
\* SHUTTING_DOWN, SHUTDOWN; ERROR is entered from SHUTTING_DOWN only; and
\* once SHUTDOWN or ERROR the state never changes again.
C11_MonotonicState ==
    [][state' # state =>
          /\ state \notin {SHUTDOWN, ERROR}
          /\ state' = ERROR => state = SHUTTING_DOWN
          /\ state' # ERROR => state' > state]_vars

(* --------------------------------- C12 -------------------------------- *)
\* the connections created so far (by the warm fills)
CreatedConns == {c \in ConnIds : connStatus[c] # "none"}

\* C12: among concurrent Start calls at most one performs the warm fill:
\* at most one of them ever runs an iteration of the fill loop, and at most
\* minConnections connections are ever created.
C12_StartedOnce ==
    /\ Cardinality(CreatedConns) <= minConnections
    /\ \A p, q \in StartProcs :
          (idx[p] > 0 /\ idx[q] > 0) => p = q

(* --------------------------------- C13 -------------------------------- *)
\* no Stop call has been made so far
NoStopCalled == \A q \in StopProcs : pc[q] = "idle" /\ ~ret[q].done

\* C13: the pool never exceeds its capacity: currentNumConnections and the
\* number of idle connections are at most maxConnections. Taken here over
\* the configurations with minConnections <= maxConnections, at the states
\* where the pool lock is free and Stop was never called.
C13_WithinCapacity ==
    (minConnections <= maxConnections /\ connMtx = Unlocked /\ NoStopCalled)
        => /\ currentNumConnections <= maxConnections
           /\ Cardinality(IdleConns) <= maxConnections

(* --------------------------------- C14 -------------------------------- *)
\* C14: whenever the pool lock is free, from construction onward,
\* currentNumConnections is at least the length of the idle sequence, and
\* equal to it when no connection is checked out.
C14_CountCoversIdle ==
    connMtx = Unlocked =>
        /\ currentNumConnections >= Len(available)
        /\ CheckedOut = {} => currentNumConnections = Len(available)

(* --------------------------------- C15 -------------------------------- *)
\* the connections held by Execute calls that have checked one out
HeldBy(p) == IF conn[p] = Nil THEN {} ELSE {conn[p]}

\* no connection is held by two callers, none is both held and idle, and
\* none sits twice in the idle sequence
ExclusiveNow ==
    /\ \A p, q \in ExecProcs : p # q => HeldBy(p) \cap HeldBy(q) = {}
    /\ \A p \in ExecProcs : HeldBy(p) \cap IdleConns = {}
    /\ \A j, k \in 1..Len(available) :
          (available[j] # Nil /\ available[j] = available[k]) => j = k

\* C15: checkout is exclusive. In every step, a checkout takes its
\* connection out of the idle sequence; a connection that has left the idle
\* sequence never comes back to it (there is no checkin), so it is never
\* handed out a second time; and no connection is ever held by two callers,
\* held while idle, or twice in the idle sequence.
C15_CheckoutExclusive ==
    [][/\ ExclusiveNow /\ ExclusiveNow'
       /\ \A p \in ExecProcs :
             (conn'[p] # conn[p] /\ conn'[p] # Nil)
                => (conn'[p] \in IdleConns /\ conn'[p] \notin IdleConns')
       /\ \A c \in ConnIds :
             c \in IdleConns' => (c \in IdleConns \/ connStatus[c] = "none")
      ]_vars

\* two Execute calls each running a command on a connection of their own
C15_Witness ==
    \E p, q \in ExecProcs :
        p # q /\ pc[p] = "e_exec" /\ pc[q] = "e_exec" /\ conn[p] # conn[q]

(* --------------------------------- C16 -------------------------------- *)
\* the state is SHUTTING_DOWN or one of the states that follow it
DrainingBegun == state \in {SHUTTING_DOWN, SHUTDOWN, ERROR}

\* C16: once draining has begun (the state is SHUTTING_DOWN, SHUTDOWN or
\* ERROR) no step adds a connection to the idle sequence, and a connection
\* dialled in such a state is closed rather than left open; this holds for
\* a Start that passed its guard before Stop ran as well. Stated for drains
\* that closed real connections only.
C16_NeverPooledOnceDraining ==
    [][(DrainingBegun /\ \A q \in StopProcs : DrainedOnlyConns(q))
          => /\ IdleConns' \subseteq IdleConns
             /\ \A c \in ConnIds :
                   connStatus[c] = "none" => connStatus'[c] # "open"]_vars

(* --------------------------------- C17 -------------------------------- *)
\* C17: no step closes a connection an Execute call is running a command
\* on, and the state does not change while an Execute call holds the state
\* read lock: from its re-check, which saw RUNNING, to its return the state
\* stays RUNNING.
C17_NotDestroyedMidUse ==
    [][\A p \in ExecProcs :
          /\ p \in stateReaders => state' = state
          /\ pc[p] \in {"e_get", "e_exec"} => state = RUNNING
          /\ pc[p] = "e_exec" =>
                /\ connStatus[conn[p]] = "open"
                /\ connStatus'[conn[p]] = "open"]_vars

\* an Execute call is running a command while a drain is closing the idle
\* connections
C17_Witness ==
    \E p \in ExecProcs, q \in StopProcs :
        /\ pc[p] = "e_exec"
        /\ pc[q] = "t_drain"
        /\ \E k \in 1..Len(drainLog[q]) : drainLog[q][k].conn # Nil

(* --------------------------------- C18 -------------------------------- *)
\* Execute p holds the state read lock and waits for the pool lock
WaitsForPoolLock(p) ==
    p \in stateReaders /\ pc[p] = "e_get" /\ connMtx # Unlocked

\* the drain of Stop q holds the pool lock, has finished its loop over real
\* connections and waits for the state write lock in setState
WaitsForStateLock(q) ==
    /\ connMtx = q
    /\ pc[q] = "t_drain"
    /\ idx[q] >= Len(available)
    /\ shutdownErr[q] # NoErr \/ currentNumConnections = 0
    /\ DrainedOnlyConns(q)
    /\ ~CanSetState

\* C18: deadlock freedom. No reachable state has an Execute that holds the
\* state read lock and waits for the pool lock together with a drain that
\* holds the pool lock and waits for the state write lock; in such a state
\* neither call ever returns.
C18_NoLockCycle ==
    ~ \E p \in ExecProcs, q \in StopProcs :
          WaitsForPoolLock(p) /\ WaitsForStateLock(q)

(* --------------------------------- C19 -------------------------------- *)
\* the connections that connected and have not been closed
OpenConns == {c \in ConnIds : connStatus[c] = "open"}

\* C19: the 16-bit counter never wraps. No step takes it from 0 to 65535,
\* also not a Stop on a Node that was never started, and whenever the pool
\* lock is free it equals the number of connections that connected and have
\* not been closed.
C19_CounterNeverWraps ==
    [][/\ ~(currentNumConnections = 0
              /\ currentNumConnections' = Uint16Mod - 1)
       /\ connMtx' = Unlocked =>
              currentNumConnections' = Cardinality(OpenConns')]_vars

(* --------------------------------- C20 -------------------------------- *)
\* C20: every entry of the idle sequence is a connection that connected and
\* has not been closed; the idle sequence never holds a nil slot or a closed
\* connection, from construction to after the drain.
C20_IdleEntriesAreOpen ==
    \A k \in 1..Len(available) :
        available[k] # Nil /\ connStatus[available[k]] = "open"

====
